---- MODULE Spec2Model ----
(***************************************************************************)
(* The transaction engine of the nissmart backend: the deposit, transfer   *)
(* and withdraw handlers of transaction.controller.ts running concurrently *)
(* against the PostgreSQL tables "User" and "Transaction".                  *)
(*                                                                         *)
(* Every awaited Prisma statement of a handler is one step.  The store is  *)
(* PostgreSQL as the handlers use it:                                      *)
(*   - prisma.$transaction(fn) runs fn between BEGIN and COMMIT, at READ   *)
(*     COMMITTED unless an isolation level is given (transfer gives        *)
(*     Serializable); a throw inside fn is a ROLLBACK;                     *)
(*   - findUnique is a plain SELECT: it takes no row lock; at READ         *)
(*     COMMITTED it reads the rows committed when the statement runs, at   *)
(*     Serializable the snapshot taken by the transaction's first query;   *)
(*   - update {increment/decrement} is UPDATE .. SET balance = balance +-  *)
(*     x: it waits for the row lock, holds it to the end of the            *)
(*     transaction and works on the newest committed row; at Serializable  *)
(*     it fails (40001) when the row was changed by a transaction that     *)
(*     committed after the snapshot;                                       *)
(*   - create is an INSERT checked against the unique index on             *)
(*     idempotencyKey: it waits for an uncommitted insert of the same key  *)
(*     and fails (P2002) when that key is committed;                       *)
(*   - a cycle of lock waits is broken by the deadlock detector, which     *)
(*     aborts one transaction of the cycle (40P01).                        *)
(* A request's amount is a JSON number and is counted here in half cents   *)
(* (0.005); balances and recorded amounts are DECIMAL(15,2) columns,       *)
(* counted in cents: PostgreSQL rounds what is stored in them to two       *)
(* decimals, ties away from zero.  A request answered 500 may be sent again *)
(* by its caller.  Timeouts and lost connections are not modelled.         *)
(***************************************************************************)
EXTENDS Integers, FiniteSets, Sequences, TLC

\* ---------------------------------------------------------------- bounds

MaxAmount == 3
MaxInitBalance == 1

\* Two requests are in flight.
Procs == {1, 2}
\* The rows of "User": two accounts; no handler of the engine creates or deletes
\* one.
Users == {1, 2}
\* The ids a request may name: the two users and one id that names no user.
UserIds == Users \cup {3}
\* Amounts a request may carry, in half cents: 1 is 0.005, 3 is 0.015.
Amounts == 1..MaxAmount
\* z.number().positive().min(0.01), in half cents.
MinAmount == 2
\* Idempotency keys are opaque: request p uses one of the first p keys, which
\* covers every pattern of equal and distinct keys among the requests.
KeysOf(p) == 1..p
\* Keys of the deposits that funded the accounts before the requests arrive.
SeedKey(u) == 100 + u
SeedId(u) == 100 + u
\* The uuid of the record request p creates.
TxId(p) == p

NoUser == 0
NoReason == "null"
Rejected == "External system rejected the withdrawal"
NoRec == [id |-> 0, type |-> "NONE", status |-> "NONE", amount |-> 0,
          idempotencyKey |-> 0, senderId |-> NoUser, receiverId |-> NoUser,
          failureReason |-> NoReason]
NoResp == [code |-> 0, error |-> "", body |-> NoRec]
NoWrites == <<>>
NoSnap == <<>>
NoChange == [u \in Users |-> 0]
\* isSuccess before Math.random() has been called.
NotSettled == "not settled"

VARIABLES
  balance,   \* "User".balance of every user, as committed
  log,       \* the committed rows of "Transaction"
  req,       \* each request's body
  pc,        \* each handler's position
  snap,      \* a Serializable transaction's snapshot of the balances
  stale,     \* the users whose row was committed anew since that snapshot
  wrec,      \* the Transaction row a transaction has inserted, uncommitted
  wbal,      \* the User rows a transaction has updated (and locked)
  resp,      \* the response sent
  prior,     \* the requests that had been answered when this one arrived
  applied,   \* the change each request's COMMIT made to every balance
  isSuccess, \* what the settlement simulation of a withdrawal returned
  retried,   \* the requests their caller has sent again after a 500
  users      \* the id and email of every row of "User"

vars == <<balance, log, req, pc, snap, stale, wrec, wbal, resp, prior, applied,
          isSuccess, retried, users>>

\* ------------------------------------------------------------- requests
DepositReqs(p) ==
  [op : {"deposit"}, a : UserIds, b : {NoUser}, amount : Amounts, key : KeysOf(p)]
WithdrawReqs(p) ==
  [op : {"withdraw"}, a : UserIds, b : {NoUser}, amount : Amounts, key : KeysOf(p)]
TransferReqs(p) ==
  [op : {"transfer"}, a : UserIds, b : UserIds, amount : Amounts, key : KeysOf(p)]
Requests(p) == DepositReqs(p) \cup WithdrawReqs(p) \cup TransferReqs(p)

\* The COMPLETED deposit that funded user u with b before the requests arrive.
\* The two users' emails, and their rows of "User" without the balance.
SeedEmail(u) == IF u = 1 THEN "a@nissmart.io" ELSE "b@nissmart.io"
UserRow(id, email) == [id |-> id, email |-> email]
UserRows == {UserRow(u, SeedEmail(u)) : u \in Users}

SeedRecord(u, b) ==
  [id |-> SeedId(u), type |-> "DEPOSIT", status |-> "COMPLETED", amount |-> b,
   idempotencyKey |-> SeedKey(u), senderId |-> NoUser, receiverId |-> u,
   failureReason |-> NoReason]

Init ==
  /\ balance \in [Users -> 0..MaxInitBalance]
  /\ log = {SeedRecord(u, balance[u]) : u \in {v \in Users : balance[v] > 0}}
  /\ req \in {f \in [Procs -> UNION {Requests(p) : p \in Procs}] :
                \A p \in Procs : f[p] \in Requests(p)}
  /\ pc = [p \in Procs |-> "start"]
  /\ snap = [p \in Procs |-> NoSnap]
  /\ stale = [p \in Procs |-> {}]
  /\ wrec = [p \in Procs |-> NoRec]
  /\ wbal = [p \in Procs |-> NoWrites]
  /\ resp = [p \in Procs |-> NoResp]
  /\ prior = [p \in Procs |-> {}]
  /\ applied = [p \in Procs |-> NoChange]
  /\ isSuccess = [p \in Procs |-> NotSettled]
  /\ retried = {}
  /\ users = UserRows

\* ---------------------------------------------------------------- store
\* z.number().positive().min(0.01)
\* Mutant: the amount is not validated.
ValidAmountAlways(amount) == TRUE

ValidAmount(amount) == amount > 0 /\ amount >= MinAmount

\* What a DECIMAL(15,2) column keeps of a value given in half cents: the value in
\* cents, rounded half away from zero.
RoundCents(h) == IF h >= 0 THEN (h + 1) \div 2 ELSE 0 - ((1 - h) \div 2)
\* A value in cents, in half cents.
HalfCents(c) == 2 * c

\* Mutant: the lookup is left out.
FindByKeyNothing(k) == {}
\* Mutant: the lookup compares the key with the wrong column.
FindByKeyWrongColumn(k) == {r \in log : r.id = k}
\* prisma.transaction.findUnique({where: {idempotencyKey}}) outside any
\* transaction: the committed rows with that key.
\* Mutant: the lookup is narrowed to rows that are not FAILED.
FindByKeyNotFailed(k) == {r \in log : r.idempotencyKey = k /\ r.status # "FAILED"}

\* Mutant: the lookup is narrowed to deposits.
FindByKeyDeposits(k) == {r \in log : r.idempotencyKey = k /\ r.type = "DEPOSIT"}

FindByKey(k) == {r \in log : r.idempotencyKey = k}

\* Mutant: every id is taken to name a user.
UserExistsAlways(id) == TRUE
\* findUnique({where: {id}}) on "User".
UserExists(id) == id \in Users

\* Mutant: the balance is not compared with the amount.
SufficientAlways(bal, amount) == TRUE
\* Number(user.balance) < amount is the handlers' rejection.
Sufficient(bal, amount) == ~(HalfCents(bal) < amount)

\* Mutant: the index on idempotencyKey is not unique.
KeyNeverTaken(k) == FALSE
\* The unique index "Transaction_idempotencyKey_key": an INSERT of key k by p
\* fails when a committed row holds k ...
KeyTaken(k) == \E r \in log : r.idempotencyKey = k
\* Mutant: an insert does not wait for an uncommitted row with its key.
KeyPendingNever(p, k) == FALSE

\* ... and waits while another transaction's uncommitted row holds it.
KeyPending(p, k) ==
  \E q \in Procs \ {p} : wrec[q] # NoRec /\ wrec[q].idempotencyKey = k

\* The row lock an UPDATE of "User" takes and keeps to the transaction's end.
LockHolders(p, u) == {q \in Procs \ {p} : u \in DOMAIN wbal[q]}
RowLocked(p, u) == LockHolders(p, u) # {}

\* balance: {increment: amount} and {decrement: amount}, stored in "balance"
Increment(bal, amount) == RoundCents(HalfCents(bal) + amount)
Decrement(bal, amount) == RoundCents(HalfCents(bal) - amount)

\* Mutant: sender and receiver are not compared.
SameAccountNever(r) == FALSE
\* senderId === receiverId
SameAccount(r) == r.a = r.b

\* [senderId, receiverId].sort()
FirstId(r) == IF r.a <= r.b THEN r.a ELSE r.b
SecondId(r) == IF r.a <= r.b THEN r.b ELSE r.a

\* The end of a handler: the response, and the transaction's state dropped.
Respond(p, code, error, body) ==
  /\ pc' = [pc EXCEPT ![p] = "done"]
  /\ resp' = [resp EXCEPT ![p] = [code |-> code, error |-> error, body |-> body]]

\* A throw inside prisma.$transaction: ROLLBACK, then the catch block's response.
Rollback(p, code, error) ==
  /\ Respond(p, code, error, NoRec)
  /\ wrec' = [wrec EXCEPT ![p] = NoRec]
  /\ wbal' = [wbal EXCEPT ![p] = NoWrites]
  /\ snap' = [snap EXCEPT ![p] = NoSnap]
  /\ stale' = [stale EXCEPT ![p] = {}]
  /\ UNCHANGED <<balance, log, req, users, isSuccess, retried, prior, applied>>

Goto(p, label) == pc' = [pc EXCEPT ![p] = label]

\* The requests answered so far.
Answered == {q \in Procs : pc[q] = "done"}

\* The Transaction row a handler's create() inserts.
\* Mutant: the two account columns are filled the wrong way round.
NewRecordSwapped(p, type, status, sender, receiver) ==
  [id |-> TxId(p), type |-> type, status |-> status,
   amount |-> RoundCents(req[p].amount),
   idempotencyKey |-> req[p].key, senderId |-> receiver, receiverId |-> sender,
   failureReason |-> NoReason]

NewRecord(p, type, status, sender, receiver) ==
  [id |-> TxId(p), type |-> type, status |-> status,
   amount |-> RoundCents(req[p].amount),
   idempotencyKey |-> req[p].key, senderId |-> sender, receiverId |-> receiver,
   failureReason |-> NoReason]

\* Mutant: the row is inserted through the global client, outside the transaction.
InsertRowOutsideTx(p, rec, next) ==
  /\ ~KeyPending(p, rec.idempotencyKey)
  /\ IF KeyTaken(rec.idempotencyKey)
       THEN Rollback(p, 500, "Internal server error")
       ELSE /\ wrec' = [wrec EXCEPT ![p] = rec]
            /\ log' = log \cup {rec}
            /\ Goto(p, next)
            /\ UNCHANGED <<balance, req, users, isSuccess, retried, snap, stale, wbal, resp, prior, applied>>

\* tx.transaction.create(): waits for an uncommitted row with the same key, fails
\* the transaction (P2002, answered 500) on a committed one, else inserts.
InsertRow(p, rec, next) ==
  /\ ~KeyPending(p, rec.idempotencyKey)
  /\ IF KeyTaken(rec.idempotencyKey)
       THEN Rollback(p, 500, "Internal server error")
       ELSE /\ wrec' = [wrec EXCEPT ![p] = rec]
            /\ Goto(p, next)
            /\ UNCHANGED <<balance, log, req, users, isSuccess, retried, snap, stale, wbal, resp, prior, applied>>

\* tx.user.update() of u's balance at READ COMMITTED: waits for the row lock, then
\* writes the new balance computed from the newest committed row.
UpdateBalance(p, u, newBal, next) ==
  /\ ~RowLocked(p, u)
  /\ wbal' = [wbal EXCEPT ![p] = (u :> newBal) @@ wbal[p]]
  /\ Goto(p, next)
  /\ UNCHANGED <<balance, log, req, users, isSuccess, retried, snap, stale, wrec, resp, prior, applied>>

\* The same statement at Serializable: once the lock is free, a row committed
\* anew since the snapshot fails the transaction (40001, answered 500).
UpdateBalanceSerializable(p, u, newBal, next) ==
  /\ ~RowLocked(p, u)
  /\ IF u \in stale[p]
       THEN Rollback(p, 500, "Internal server error")
       ELSE /\ wbal' = [wbal EXCEPT ![p] = (u :> newBal) @@ wbal[p]]
            /\ Goto(p, next)
            /\ UNCHANGED <<balance, log, req, users, isSuccess, retried, snap, stale, wrec, resp, prior, applied>>

\* The balances after p's COMMIT.
\* Mutant: the balance update has no where clause and reaches every account.
CommittedBalanceEvery(p) ==
  [u \in Users |->
     IF u \in DOMAIN wbal[p] THEN wbal[p][u]
     ELSE IF DOMAIN wbal[p] = {} THEN balance[u]
     ELSE LET w == CHOOSE x \in DOMAIN wbal[p] : TRUE
          IN  balance[u] + (wbal[p][w] - balance[w])]

CommittedBalance(p) ==
  [u \in Users |-> IF u \in DOMAIN wbal[p] THEN wbal[p][u] ELSE balance[u]]
\* Mutant: the status update selects the rows by their sender.
UpdateWhereSender(p, r) == r.senderId = wrec[p].senderId
\* tx.transaction.update({where: {id: transaction.id}, data: {status, ..}}): the
\* rows the statement's where clause selects, and what it writes to them.
UpdateWhere(p, r) == r.id = wrec[p].id
Settled(p, r) ==
  [r EXCEPT !.status = wrec[p].status, !.failureReason = wrec[p].failureReason]
\* The Transaction rows after p's COMMIT: the row it inserted, and (withdraw) the
\* committed rows its status update selected.
\* Mutant: the committed row replaces the earlier rows of the same accounts.
CommittedLogReplaces(p) ==
  {r \in log : r.senderId # wrec[p].senderId \/ r.receiverId # wrec[p].receiverId}
    \cup {wrec[p]}

CommittedLog(p) ==
  {IF req[p].op = "withdraw" /\ UpdateWhere(p, r) THEN Settled(p, r) ELSE r : r \in log}
    \cup {wrec[p]}

\* COMMIT: the inserted row and the updated balances become the committed ones,
\* the locks are released, and every open snapshot is older than these rows.
CommitTx(p) ==
  /\ balance' = CommittedBalance(p)
  /\ log' = CommittedLog(p)
  /\ stale' = [q \in Procs |->
                 IF q = p THEN {}
                 ELSE IF snap[q] # NoSnap THEN stale[q] \cup DOMAIN wbal[p]
                 ELSE stale[q]]
  /\ snap' = [snap EXCEPT ![p] = NoSnap]
  /\ wrec' = [wrec EXCEPT ![p] = NoRec]
  /\ wbal' = [wbal EXCEPT ![p] = NoWrites]
  /\ applied' = [applied EXCEPT ![p] =
                   [u \in Users |-> CommittedBalance(p)[u] - balance[u]]]
  /\ UNCHANGED <<req, users, isSuccess, retried, prior>>

\* -------------------------------------------------------------- deposit
DepositStart(p) ==
  /\ pc[p] = "start" /\ req[p].op = "deposit"
  /\ prior' = [prior EXCEPT ![p] = Answered]
  /\ UNCHANGED <<balance, log, req, users, isSuccess, retried, snap, stale, wrec, wbal, applied>>
  /\ \/ /\ ~ValidAmount(req[p].amount)
        /\ Respond(p, 400, "Invalid input", NoRec)
     \/ /\ ValidAmount(req[p].amount)
        /\ \E r \in FindByKey(req[p].key) : Respond(p, 200, "", r)
     \/ /\ ValidAmount(req[p].amount)
        /\ FindByKey(req[p].key) = {}
        /\ Goto(p, "read")
        /\ UNCHANGED resp

DepositRead(p) ==
  /\ pc[p] = "read" /\ req[p].op = "deposit"
  /\ IF ~UserExists(req[p].a)
       THEN Rollback(p, 404, "User not found")
       ELSE /\ Goto(p, "insert")
            /\ UNCHANGED <<balance, log, req, users, isSuccess, retried, snap, stale, wrec, wbal, resp, prior, applied>>

DepositInsert(p) ==
  /\ pc[p] = "insert" /\ req[p].op = "deposit"
  /\ InsertRow(p, NewRecord(p, "DEPOSIT", "COMPLETED", NoUser, req[p].a), "credit")

DepositCredit(p) ==
  /\ pc[p] = "credit" /\ req[p].op = "deposit"
  /\ UpdateBalance(p, req[p].a, Increment(balance[req[p].a], req[p].amount), "commit")

DepositCommit(p) ==
  /\ pc[p] = "commit" /\ req[p].op = "deposit"
  /\ CommitTx(p)
  /\ Respond(p, 201, "", wrec[p])

\* ------------------------------------------------------------- transfer
TransferStart(p) ==
  /\ pc[p] = "start" /\ req[p].op = "transfer"
  /\ prior' = [prior EXCEPT ![p] = Answered]
  /\ UNCHANGED <<balance, log, req, users, isSuccess, retried, snap, stale, wrec, wbal, applied>>
  /\ \/ /\ ~ValidAmount(req[p].amount)
        /\ Respond(p, 400, "Invalid input", NoRec)
     \/ /\ ValidAmount(req[p].amount)
        /\ SameAccount(req[p])
        /\ Respond(p, 400, "Invalid transfer", NoRec)
     \/ /\ ValidAmount(req[p].amount)
        /\ ~SameAccount(req[p])
        /\ \E r \in FindByKey(req[p].key) : Respond(p, 200, "", r)
     \/ /\ ValidAmount(req[p].amount)
        /\ ~SameAccount(req[p])
        /\ FindByKey(req[p].key) = {}
        /\ Goto(p, "read")
        /\ UNCHANGED resp

\* findUnique(firstId): the transaction's first query takes its snapshot.
TransferReadFirst(p) ==
  /\ pc[p] = "read" /\ req[p].op = "transfer"
  /\ snap' = [snap EXCEPT ![p] = balance]
  /\ stale' = [stale EXCEPT ![p] = {}]
  /\ Goto(p, "read2")
  /\ UNCHANGED <<balance, log, req, users, isSuccess, retried, wrec, wbal, resp, prior, applied>>

\* findUnique(secondId), read from the snapshot, and the checks that follow it.
TransferReadSecond(p) ==
  /\ pc[p] = "read2" /\ req[p].op = "transfer"
  /\ IF ~UserExists(FirstId(req[p])) \/ ~UserExists(SecondId(req[p]))
       THEN Rollback(p, 404, "User not found")
       ELSE IF ~Sufficient(snap[p][req[p].a], req[p].amount)
         THEN Rollback(p, 400, "Insufficient funds")
         ELSE /\ Goto(p, "insert")
              /\ UNCHANGED <<balance, log, req, users, isSuccess, retried, snap, stale, wrec, wbal, resp, prior, applied>>

TransferInsert(p) ==
  /\ pc[p] = "insert" /\ req[p].op = "transfer"
  /\ InsertRow(p, NewRecord(p, "TRANSFER", "COMPLETED", req[p].a, req[p].b), "debit")

TransferDebit(p) ==
  /\ pc[p] = "debit" /\ req[p].op = "transfer"
  /\ UpdateBalanceSerializable(p, req[p].a,
       Decrement(balance[req[p].a], req[p].amount), "credit")

\* Mutant: the receiver's update is left out of the transaction.
TransferCreditOmitted(p) ==
  /\ pc[p] = "credit" /\ req[p].op = "transfer"
  /\ Goto(p, "commit")
  /\ UNCHANGED <<balance, log, req, users, isSuccess, retried, snap, stale, wrec, wbal, resp, prior, applied>>

TransferCredit(p) ==
  /\ pc[p] = "credit" /\ req[p].op = "transfer"
  /\ UpdateBalanceSerializable(p, req[p].b,
       Increment(balance[req[p].b], req[p].amount), "commit")

TransferCommit(p) ==
  /\ pc[p] = "commit" /\ req[p].op = "transfer"
  /\ CommitTx(p)
  /\ Respond(p, 201, "", wrec[p])

\* ------------------------------------------------------------- withdraw
WithdrawStart(p) ==
  /\ pc[p] = "start" /\ req[p].op = "withdraw"
  /\ prior' = [prior EXCEPT ![p] = Answered]
  /\ UNCHANGED <<balance, log, req, users, isSuccess, retried, snap, stale, wrec, wbal, applied>>
  /\ \/ /\ ~ValidAmount(req[p].amount)
        /\ Respond(p, 400, "Invalid input", NoRec)
     \/ /\ ValidAmount(req[p].amount)
        /\ \E r \in FindByKey(req[p].key) : Respond(p, 200, "", r)
     \/ /\ ValidAmount(req[p].amount)
        /\ FindByKey(req[p].key) = {}
        /\ Goto(p, "read")
        /\ UNCHANGED resp

\* findUnique(userId) at READ COMMITTED and the two checks on the row it returns.
WithdrawRead(p) ==
  /\ pc[p] = "read" /\ req[p].op = "withdraw"
  /\ IF ~UserExists(req[p].a)
       THEN Rollback(p, 404, "User not found")
       ELSE IF ~Sufficient(balance[req[p].a], req[p].amount)
         THEN Rollback(p, 400, "Insufficient funds")
         ELSE /\ Goto(p, "insert")
              /\ UNCHANGED <<balance, log, req, users, isSuccess, retried, snap, stale, wrec, wbal, resp, prior, applied>>

\* Mutant: the row is inserted as COMPLETED before the settlement.
WithdrawInsertCompleted(p) ==
  /\ pc[p] = "insert" /\ req[p].op = "withdraw"
  /\ InsertRow(p, NewRecord(p, "WITHDRAWAL", "COMPLETED", req[p].a, NoUser), "settle")

WithdrawInsert(p) ==
  /\ pc[p] = "insert" /\ req[p].op = "withdraw"
  /\ InsertRow(p, NewRecord(p, "WITHDRAWAL", "PROCESSING", req[p].a, NoUser), "settle")

\* Mutant: the failure branch leaves the row's status as it was inserted.
WithdrawSettleKeepsProcessing(p) ==
  /\ pc[p] = "settle" /\ req[p].op = "withdraw"
  /\ \E random \in BOOLEAN :
       /\ isSuccess' = [isSuccess EXCEPT ![p] = IF random THEN "true" ELSE "false"]
       /\ IF random
            THEN /\ wrec' = [wrec EXCEPT ![p].status = "COMPLETED"]
                 /\ Goto(p, "debit")
            ELSE /\ wrec' = wrec
                 /\ Goto(p, "commit")
  /\ UNCHANGED <<balance, log, req, users, retried, snap, stale, wbal, resp, prior, applied>>

\* Mutant: the success branch leaves the row's status as it was inserted.
WithdrawSettleSuccessKeepsProcessing(p) ==
  /\ pc[p] = "settle" /\ req[p].op = "withdraw"
  /\ \E random \in BOOLEAN :
       /\ isSuccess' = [isSuccess EXCEPT ![p] = IF random THEN "true" ELSE "false"]
       /\ IF random
            THEN /\ wrec' = wrec
                 /\ Goto(p, "debit")
            ELSE /\ wrec' = [wrec EXCEPT ![p].status = "FAILED",
                                         ![p].failureReason = Rejected]
                 /\ Goto(p, "commit")
  /\ UNCHANGED <<balance, log, req, users, retried, snap, stale, wbal, resp, prior, applied>>

\* Mutant: the failure branch sets the status and no failureReason.
WithdrawSettleNoReason(p) ==
  /\ pc[p] = "settle" /\ req[p].op = "withdraw"
  /\ \E random \in BOOLEAN :
       /\ isSuccess' = [isSuccess EXCEPT ![p] = IF random THEN "true" ELSE "false"]
       /\ IF random
            THEN /\ wrec' = [wrec EXCEPT ![p].status = "COMPLETED"]
                 /\ Goto(p, "debit")
            ELSE /\ wrec' = [wrec EXCEPT ![p].status = "FAILED"]
                 /\ Goto(p, "commit")
  /\ UNCHANGED <<balance, log, req, users, retried, snap, stale, wbal, resp, prior, applied>>

\* Mutant: the failure branch goes on to the balance update.
WithdrawSettleDebitsOnFailure(p) ==
  /\ pc[p] = "settle" /\ req[p].op = "withdraw"
  /\ \E random \in BOOLEAN :
       /\ isSuccess' = [isSuccess EXCEPT ![p] = IF random THEN "true" ELSE "false"]
       /\ wrec' = IF random
                    THEN [wrec EXCEPT ![p].status = "COMPLETED"]
                    ELSE [wrec EXCEPT ![p].status = "FAILED",
                                      ![p].failureReason = Rejected]
       /\ Goto(p, "debit")
  /\ UNCHANGED <<balance, log, req, users, retried, snap, stale, wbal, resp, prior, applied>>

\* isSuccess = Math.random() > 0.1, then the update of the row's status in the same
\* transaction.
WithdrawSettle(p) ==
  /\ pc[p] = "settle" /\ req[p].op = "withdraw"
  /\ \E random \in BOOLEAN :
       /\ isSuccess' = [isSuccess EXCEPT ![p] = IF random THEN "true" ELSE "false"]
       /\ IF random
            THEN /\ wrec' = [wrec EXCEPT ![p].status = "COMPLETED"]
                 /\ Goto(p, "debit")
            ELSE /\ wrec' = [wrec EXCEPT ![p].status = "FAILED",
                                         ![p].failureReason = Rejected]
                 /\ Goto(p, "commit")
  /\ UNCHANGED <<balance, log, req, users, retried, snap, stale, wbal, resp, prior, applied>>

WithdrawDebit(p) ==
  /\ pc[p] = "debit" /\ req[p].op = "withdraw"
  /\ UpdateBalance(p, req[p].a, Decrement(balance[req[p].a], req[p].amount), "commit")

\* Mutant: the status code does not depend on the row's status.
WithdrawCommitAlways201(p) ==
  /\ pc[p] = "commit" /\ req[p].op = "withdraw"
  /\ CommitTx(p)
  /\ Respond(p, 201, "", wrec[p])

WithdrawCommit(p) ==
  /\ pc[p] = "commit" /\ req[p].op = "withdraw"
  /\ CommitTx(p)
  /\ Respond(p, IF wrec[p].status = "COMPLETED" THEN 201 ELSE 400, "", wrec[p])

\* ------------------------------------------------------------- deadlock
\* The row whose lock p's next statement needs.
WantedRow(p) ==
  IF pc[p] = "debit" THEN {req[p].a}
  ELSE IF pc[p] = "credit" THEN {IF req[p].op = "transfer" THEN req[p].b ELSE req[p].a}
  ELSE {}
\* The transactions p waits for.
WaitsFor(p) == UNION {LockHolders(p, u) : u \in WantedRow(p)}

RECURSIVE WaitChain(_, _)
WaitChain(S, n) ==
  IF n = 0 THEN S ELSE WaitChain(S \cup UNION {WaitsFor(q) : q \in S}, n - 1)
InDeadlock(p) == p \in WaitChain(WaitsFor(p), Cardinality(Procs))

\* PostgreSQL's deadlock detector aborts a transaction of a cycle of lock waits
\* (40P01); the handler's catch block answers 500.
DeadlockAbort(p) ==
  /\ InDeadlock(p)
  /\ Rollback(p, 500, "Internal server error")

\* ---------------------------------------------------------------- caller
\* The caller of a request answered 500 sends the same body again, with the same
\* idempotencyKey; the handler treats it as any other request.
Retry(p) ==
  /\ pc[p] = "done" /\ resp[p].code = 500
  /\ pc' = [pc EXCEPT ![p] = "start"]
  /\ resp' = [resp EXCEPT ![p] = NoResp]
  /\ isSuccess' = [isSuccess EXCEPT ![p] = NotSettled]
  /\ retried' = retried \cup {p}
  /\ UNCHANGED <<balance, log, req, users, snap, stale, wrec, wbal, prior, applied>>

Next ==
  \E p \in Procs :
    \/ DepositStart(p) \/ DepositRead(p) \/ DepositInsert(p)
    \/ DepositCredit(p) \/ DepositCommit(p)
    \/ TransferStart(p) \/ TransferReadFirst(p) \/ TransferReadSecond(p)
    \/ TransferInsert(p) \/ TransferDebit(p) \/ TransferCredit(p)
    \/ TransferCommit(p)
    \/ WithdrawStart(p) \/ WithdrawRead(p) \/ WithdrawInsert(p)
    \/ WithdrawSettle(p) \/ WithdrawDebit(p) \/ WithdrawCommit(p)
    \/ DeadlockAbort(p)
    \/ Retry(p)

Spec == Init /\ [][Next]_vars

\* The steps of the handler serving p. The event loop resumes a handler once the
\* statement it awaits has returned, and the database grants a row lock or a key
\* once its holder has ended; whether a caller sends a request again is its own
\* choice.
HandlerStep(p) ==
  \/ DepositStart(p) \/ DepositRead(p) \/ DepositInsert(p)
  \/ DepositCredit(p) \/ DepositCommit(p)
  \/ TransferStart(p) \/ TransferReadFirst(p) \/ TransferReadSecond(p)
  \/ TransferInsert(p) \/ TransferDebit(p) \/ TransferCredit(p)
  \/ TransferCommit(p)
  \/ WithdrawStart(p) \/ WithdrawRead(p) \/ WithdrawInsert(p)
  \/ WithdrawSettle(p) \/ WithdrawDebit(p) \/ WithdrawCommit(p)
  \/ DeadlockAbort(p)

\* Two requests of the least amount the schemas accept.
InitLeast == Init /\ \A p \in Procs : req[p].amount = MinAmount

FairSpec ==
  InitLeast /\ [][Next]_vars /\ \A p \in Procs : WF_vars(HandlerStep(p))

\* --------------------------------------------------- transfers only
\* Two transfer requests over accounts that may hold more than one cent.
MaxSenderBalance == 2

InitTransfers ==
  /\ balance \in [Users -> 0..MaxSenderBalance]
  /\ log = {SeedRecord(u, balance[u]) : u \in {v \in Users : balance[v] > 0}}
  /\ req \in {f \in [Procs -> UNION {TransferReqs(p) : p \in Procs}] :
                \A p \in Procs : f[p] \in TransferReqs(p)}
  /\ pc = [p \in Procs |-> "start"]
  /\ snap = [p \in Procs |-> NoSnap]
  /\ stale = [p \in Procs |-> {}]
  /\ wrec = [p \in Procs |-> NoRec]
  /\ wbal = [p \in Procs |-> NoWrites]
  /\ resp = [p \in Procs |-> NoResp]
  /\ prior = [p \in Procs |-> {}]
  /\ applied = [p \in Procs |-> NoChange]
  /\ isSuccess = [p \in Procs |-> NotSettled]
  /\ retried = {}
  /\ users = UserRows

NextTransfers ==
  \E p \in Procs :
    \/ TransferStart(p) \/ TransferReadFirst(p) \/ TransferReadSecond(p)
    \/ TransferInsert(p) \/ TransferDebit(p) \/ TransferCredit(p)
    \/ TransferCommit(p)
    \/ DeadlockAbort(p)
    \/ Retry(p)

SpecTransfers == InitTransfers /\ [][NextTransfers]_vars

\* ------------------------------------------------------------ createUser
\* The handler of user.controller.ts on two requests, over a "User" table that
\* holds some of the two users already.
Emails == {SeedEmail(u) : u \in Users}
CreateUserReqs ==
  [op : {"createUser"}, email : Emails \cup {"not an email"}, name : {"", "Ann"}]

\* The id the database gives the row p creates.
NewUserId(p) == 10 + p

InitUsers ==
  /\ \E existing \in SUBSET Users :
       /\ users = {UserRow(u, SeedEmail(u)) : u \in existing}
       /\ balance \in [existing -> 0..MaxInitBalance]
  /\ log = {SeedRecord(u, balance[u]) : u \in {v \in DOMAIN balance : balance[v] > 0}}
  /\ req \in [Procs -> CreateUserReqs]
  /\ pc = [p \in Procs |-> "start"]
  /\ snap = [p \in Procs |-> NoSnap]
  /\ stale = [p \in Procs |-> {}]
  /\ wrec = [p \in Procs |-> NoRec]
  /\ wbal = [p \in Procs |-> NoWrites]
  /\ resp = [p \in Procs |-> NoResp]
  /\ prior = [p \in Procs |-> {}]
  /\ applied = [p \in Procs |-> NoChange]
  /\ isSuccess = [p \in Procs |-> NotSettled]
  /\ retried = {}

\* createUserSchema: z.string().email(), z.string().min(1)
ValidUser(r) == r.email \in Emails /\ r.name # ""

\* prisma.user.findUnique({ where: { email } })
FindByEmail(email) == {u \in users : u.email = email}

\* The parse and the lookup: 400 for an invalid body, 409 for an email in use.
CreateUserStart(p) ==
  /\ pc[p] = "start" /\ req[p].op = "createUser"
  /\ prior' = [prior EXCEPT ![p] = Answered]
  /\ UNCHANGED <<balance, log, req, users, isSuccess, retried, snap, stale, wrec,
                 wbal, applied>>
  /\ \/ /\ ~ValidUser(req[p])
        /\ Respond(p, 400, "Invalid input", NoRec)
     \/ /\ ValidUser(req[p])
        /\ FindByEmail(req[p].email) # {}
        /\ Respond(p, 409, "User already exists", NoRec)
     \/ /\ ValidUser(req[p])
        /\ FindByEmail(req[p].email) = {}
        /\ Goto(p, "create")
        /\ UNCHANGED resp

\* Mutant: "User" has no unique index on email.
CreateUserCreateNoIndex(p) ==
  /\ pc[p] = "create" /\ req[p].op = "createUser"
  /\ UNCHANGED <<log, req, isSuccess, retried, snap, stale, wrec, wbal, prior,
                 applied>>
  /\ users' = users \cup {UserRow(NewUserId(p), req[p].email)}
  /\ balance' = (NewUserId(p) :> 0) @@ balance
  /\ Respond(p, 201, "", UserRow(NewUserId(p), req[p].email))

\* prisma.user.create({ data: { email, name, balance: 0 } }): one statement,
\* committed on its own; the unique index "User_email_key" fails it (P2002,
\* answered 500) when a row with the email exists.
CreateUserCreate(p) ==
  /\ pc[p] = "create" /\ req[p].op = "createUser"
  /\ UNCHANGED <<log, req, isSuccess, retried, snap, stale, wrec, wbal, prior,
                 applied>>
  /\ IF FindByEmail(req[p].email) # {}
       THEN /\ Respond(p, 500, "Internal server error", NoRec)
            /\ UNCHANGED <<users, balance>>
       ELSE /\ users' = users \cup {UserRow(NewUserId(p), req[p].email)}
            /\ balance' = (NewUserId(p) :> 0) @@ balance
            /\ Respond(p, 201, "", UserRow(NewUserId(p), req[p].email))

NextUsers ==
  \E p \in Procs :
    \/ CreateUserStart(p)
    \/ CreateUserCreate(p)
    \/ Retry(p)

SpecUsers == InitUsers /\ [][NextUsers]_vars

\* ------------------------------------------------- amounts of any sign
\* The same handlers, started on requests whose amount is zero, negative or the
\* least amount the schemas accept.
NonPositive == {-1, 0}

AnyRequests(p) ==
  {[r EXCEPT !.amount = a] : r \in Requests(p), a \in NonPositive \cup {MinAmount}}

InitAny ==
  /\ balance \in [Users -> 0..MaxInitBalance]
  /\ log = {SeedRecord(u, balance[u]) : u \in {v \in Users : balance[v] > 0}}
  /\ req \in {f \in [Procs -> UNION {AnyRequests(p) : p \in Procs}] :
                \A p \in Procs : f[p] \in AnyRequests(p)}
  /\ pc = [p \in Procs |-> "start"]
  /\ snap = [p \in Procs |-> NoSnap]
  /\ stale = [p \in Procs |-> {}]
  /\ wrec = [p \in Procs |-> NoRec]
  /\ wbal = [p \in Procs |-> NoWrites]
  /\ resp = [p \in Procs |-> NoResp]
  /\ prior = [p \in Procs |-> {}]
  /\ applied = [p \in Procs |-> NoChange]
  /\ isSuccess = [p \in Procs |-> NotSettled]
  /\ retried = {}
  /\ users = UserRows

SpecAny == InitAny /\ [][Next]_vars

\* ------------------------------------------------------- getTransactions
\* The read handler is specified on its own over stored tables: it takes no part
\* in the transactions above and reads the committed Transaction table once.
\* Rows carry the createdAt column here; equal values model rows created within
\* one tick of the TIMESTAMP(3) column.
MaxRows == 3
Times == {1, 2}

\* The sender/receiver pairs the three handlers write.
RowShapes ==
  {[type |-> "DEPOSIT", senderId |-> NoUser, receiverId |-> u] : u \in Users}
  \cup {[type |-> "WITHDRAWAL", senderId |-> u, receiverId |-> NoUser] : u \in Users}
  \cup {[type |-> "TRANSFER", senderId |-> ab[1], receiverId |-> ab[2]] :
          ab \in {x \in Users \X Users : x[1] # x[2]}}

StoredRow(i, shape, t) ==
  [id |-> i, type |-> shape.type, status |-> "COMPLETED", amount |-> 1,
   idempotencyKey |-> i, senderId |-> shape.senderId,
   receiverId |-> shape.receiverId, failureReason |-> NoReason, createdAt |-> t]

ListReqs == {[op |-> "list", a |-> u] : u \in UserIds}

BalanceReqs == {[op |-> "balance", a |-> u] : u \in UserIds}
StatsReqs == {[op |-> "stats", a |-> NoUser]}
ReadReqs == ListReqs \cup BalanceReqs \cup StatsReqs

\* One client reads; reads do not interact, so a second reader adds nothing.
Readers == {1}

InitList ==
  /\ balance = [u \in Users |-> 0]
  /\ \E shape \in [1..MaxRows -> RowShapes], t \in [1..MaxRows -> Times] :
       log = {StoredRow(i, shape[i], t[i]) : i \in 1..MaxRows}
  /\ \E r \in ReadReqs : req = [p \in Procs |-> r]
  /\ pc = [p \in Procs |-> IF p \in Readers THEN "start" ELSE "idle"]
  /\ snap = [p \in Procs |-> NoSnap]
  /\ stale = [p \in Procs |-> {}]
  /\ wrec = [p \in Procs |-> NoRec]
  /\ wbal = [p \in Procs |-> NoWrites]
  /\ resp = [p \in Procs |-> NoResp]
  /\ prior = [p \in Procs |-> {}]
  /\ applied = [p \in Procs |-> NoChange]
  /\ isSuccess = [p \in Procs |-> NotSettled]
  /\ retried = {}
  /\ users = UserRows

\* Mutant: the where clause names the sender only.
MatchesSenderOnly(r, user_id) == r.senderId = user_id

\* where: { OR: [{ senderId: user_id }, { receiverId: user_id }] }
Matches(r, user_id) == r.senderId = user_id \/ r.receiverId = user_id

\* orderBy: { createdAt: "desc" }: every listing of the rows, one entry per row,
\* in which createdAt never increases; rows with equal createdAt come in any order.
OrderByCreatedAtDesc(rows) ==
  {seq \in [1..Cardinality(rows) -> rows] :
     /\ \A i, j \in DOMAIN seq : i # j => seq[i] # seq[j]
     /\ \A i, j \in DOMAIN seq : i < j => seq[i].createdAt >= seq[j].createdAt}

\* prisma.user.findUnique, 404 for an unknown user.
GetTransactionsStart(p) ==
  /\ pc[p] = "start" /\ req[p].op = "list"
  /\ UNCHANGED <<balance, log, req, users, isSuccess, retried, snap, stale, wrec, wbal,
                 prior, applied>>
  /\ \/ /\ ~UserExists(req[p].a)
        /\ Respond(p, 404, "User not found", NoRec)
     \/ /\ UserExists(req[p].a)
        /\ Goto(p, "find")
        /\ UNCHANGED resp

\* prisma.transaction.findMany, res.json(transactions).
GetTransactionsFind(p) ==
  /\ pc[p] = "find" /\ req[p].op = "list"
  /\ UNCHANGED <<balance, log, req, users, isSuccess, retried, snap, stale, wrec, wbal,
                 prior, applied>>
  /\ \E transactions \in OrderByCreatedAtDesc({r \in log : Matches(r, req[p].a)}) :
       Respond(p, 200, "", transactions)

\* getUserBalance: prisma.user.findUnique, 404 for an unknown user, else the
\* user's id and balance.
GetUserBalance(p) ==
  /\ pc[p] = "start" /\ req[p].op = "balance"
  /\ UNCHANGED <<balance, log, req, users, isSuccess, retried, snap, stale, wrec, wbal,
                 prior, applied>>
  /\ IF UserExists(req[p].a)
       THEN Respond(p, 200, "", [userId |-> req[p].a, balance |-> balance[req[p].a]])
       ELSE Respond(p, 404, "User not found", NoRec)

\* take: 50
Take == 50

RECURSIVE WalletSum(_)
WalletSum(S) ==
  IF S = {} THEN 0
  ELSE LET u == CHOOSE x \in S : TRUE IN balance[u] + WalletSum(S \ {u})

CountCompleted(type) ==
  Cardinality({r \in log : r.type = type /\ r.status = "COMPLETED"})

\* getAdminStats: the counts, the sum of the balances and the newest rows. The
\* six reads are separate statements; the table does not change between them here.
GetAdminStats(p) ==
  /\ pc[p] = "start" /\ req[p].op = "stats"
  /\ UNCHANGED <<balance, log, req, users, isSuccess, retried, snap, stale, wrec, wbal,
                 prior, applied>>
  /\ \E transactions \in OrderByCreatedAtDesc(log) :
       Respond(p, 200, "",
         [totalUsers |-> Cardinality(users),
          totalValueInWallets |-> WalletSum(Users),
          totalTransfers |-> CountCompleted("TRANSFER"),
          totalWithdrawals |-> CountCompleted("WITHDRAWAL"),
          totalDeposits |-> CountCompleted("DEPOSIT"),
          recentTransactions |->
            SubSeq(transactions, 1,
                   IF Len(transactions) < Take THEN Len(transactions) ELSE Take)])

NextList ==
  \E p \in Procs :
    \/ GetTransactionsStart(p)
    \/ GetTransactionsFind(p)
    \/ GetUserBalance(p)
    \/ GetAdminStats(p)

SpecList == InitList /\ [][NextList]_vars

\* ------------------------------------------------------- every handler
\* The write handlers on two requests, or a read handler on a stored table.
InitFrame == Init \/ InitList
NextFrame == Next \/ NextList
SpecFrame == InitFrame /\ [][NextFrame]_vars

\* ----------------------------------------------------------------- claims
Done(p) == pc[p] = "done"
\* p's COMMIT inserted a Transaction row.
Recorded(p) == \E r \in log : r.id = TxId(p)
\* p's COMMIT changed some balance.
ChangedBalance(p) == applied[p] # NoChange
\* The balance the account had before the requests arrived.
InitialBalance(u) ==
  IF \E r \in log : r.id = SeedId(u)
    THEN (CHOOSE r \in log : r.id = SeedId(u)).amount
    ELSE 0

\* C1: under any interleaving of deposit, transfer and withdraw requests every
\* account's committed balance is >= 0.
C1_NoNegativeBalance == \A u \in Users : balance[u] >= 0

\* C2: when a call that recorded a transaction has returned and a second call with
\* the same idempotencyKey and the same arguments follows it, the second response
\* carries the same transaction id, no second record is appended and the second
\* call changes no balance.
C2_SequentialReplay ==
  \A p, q \in Procs :
    (/\ p # q /\ Done(p) /\ Done(q)
     /\ p \in prior[q]
     /\ req[q] = req[p]
     /\ resp[p].body.id = TxId(p))
    => /\ resp[q].code = 200
       /\ resp[q].body.id = resp[p].body.id
       /\ resp[q].body \in log
       /\ Cardinality(FindByKey(req[p].key)) = 1
       /\ ~Recorded(q)
       /\ ~ChangedBalance(q)
\* A deposit, a transfer or a withdrawal was recorded and then replayed.
C2_Witness ==
  \E p, q \in Procs :
    /\ p # q /\ Done(p) /\ Done(q) /\ p \in prior[q] /\ req[q] = req[p]
    /\ resp[p].body.id = TxId(p) /\ resp[p].code = 201
    /\ req[p].op = "transfer"
    /\ resp[q].code = 200 /\ resp[q].body.id = TxId(p)
    /\ applied[p][req[p].a] < 0 /\ applied[q] = NoChange

\* C3: a request whose insert loses on the unique-key constraint to a concurrent
\* request with the same idempotencyKey is answered with the winner's record (a
\* replay), not with an error.
C3_LoserGetsWinnersRecord ==
  [][\A p \in Procs :
       (/\ pc[p] = "insert"
        /\ KeyTaken(req[p].key)
        /\ pc'[p] = "done")
       => /\ resp'[p].code = 200
          /\ resp'[p].body \in FindByKey(req[p].key)]_vars

\* C4: no two transaction records share an idempotencyKey, and for any key the
\* balance change attributable to it has been applied at most once.
C4_KeyUniqueAppliedOnce ==
  /\ \A r1, r2 \in log : r1.idempotencyKey = r2.idempotencyKey => r1 = r2
  /\ \A p, q \in Procs :
       (p # q /\ req[p].key = req[q].key) => ~(ChangedBalance(p) /\ ChangedBalance(q))
\* Two requests with one key ran concurrently into the insert; one committed its
\* record and its balance change, the other was turned away by the index.
C4_Witness ==
  \E p, q \in Procs :
    /\ p # q /\ req[p].key = req[q].key
    /\ Done(p) /\ Done(q)
    /\ p \notin prior[q] /\ q \notin prior[p]
    /\ Recorded(p) /\ ChangedBalance(p)
    /\ resp[q].code = 500 /\ ~ChangedBalance(q)

\* An amount of whole cents: DECIMAL(15,2) keeps it as it is.
WholeCents(amount) == HalfCents(RoundCents(amount)) = amount

\* C5: a transfer that completes decreases the sender's balance by exactly amount
\* and increases the receiver's by exactly amount, so the sum of the two balances
\* is the same after the transfer as before it.
C5_TransferConserves ==
  [][\A p \in Procs :
       (/\ req[p].op = "transfer"
        /\ pc[p] = "commit" /\ pc'[p] = "done"
        /\ resp'[p].code = 201)
       => /\ HalfCents(balance'[req[p].a]) = HalfCents(balance[req[p].a]) - req[p].amount
          /\ HalfCents(balance'[req[p].b]) = HalfCents(balance[req[p].b]) + req[p].amount
          /\ balance'[req[p].a] + balance'[req[p].b]
               = balance[req[p].a] + balance[req[p].b]]_vars
\* C5 for the transfers of whole cents: there the two changes are exact under every
\* interleaving.
C5_WholeCentTransferConserves ==
  [][\A p \in Procs :
       (/\ req[p].op = "transfer" /\ WholeCents(req[p].amount)
        /\ pc[p] = "commit" /\ pc'[p] = "done"
        /\ resp'[p].code = 201)
       => /\ HalfCents(balance'[req[p].a]) = HalfCents(balance[req[p].a]) - req[p].amount
          /\ HalfCents(balance'[req[p].b]) = HalfCents(balance[req[p].b]) + req[p].amount]_vars

RECURSIVE SumRequested(_)
SumRequested(P) ==
  IF P = {} THEN 0
  ELSE LET p == CHOOSE x \in P : TRUE IN req[p].amount + SumRequested(P \ {p})

\* Every request is an answered deposit to u of one valid amount, with a key no
\* other request uses.
AllDepositsTo(u) ==
  /\ \A p \in Procs :
       /\ Done(p) /\ req[p].op = "deposit" /\ req[p].a = u
       /\ ValidAmount(req[p].amount)
  /\ \A p, q \in Procs : req[p].amount = req[q].amount
  /\ \A p, q \in Procs : p # q => req[p].key # req[q].key

\* C6: deposits of one amount to one account, one per request and all with
\* distinct keys, issued concurrently, all succeed and leave the balance at the
\* initial balance plus the sum of the amounts.
C6_ConcurrentDeposits ==
  \A u \in Users :
    AllDepositsTo(u)
    => /\ \A p \in Procs : resp[p].code = 201
       /\ HalfCents(balance[u]) = HalfCents(InitialBalance(u)) + SumRequested(Procs)
\* C6 for deposits of whole cents: no increment is lost under any interleaving.
C6_WholeCentDeposits ==
  \A u \in Users :
    (AllDepositsTo(u) /\ \A p \in Procs : WholeCents(req[p].amount))
    => /\ \A p \in Procs : resp[p].code = 201
       /\ HalfCents(balance[u]) = HalfCents(InitialBalance(u)) + SumRequested(Procs)

\* C7: two transfers between the same pair of accounts in opposite directions,
\* issued concurrently with sufficient funds on both sides, both complete: neither
\* is answered with an error.
C7_OppositeTransfersComplete ==
  \A p, q \in Procs :
    (/\ p # q
     /\ req[p].op = "transfer" /\ req[q].op = "transfer"
     /\ req[p].a = req[q].b /\ req[p].b = req[q].a /\ req[p].a # req[p].b
     /\ UserExists(req[p].a) /\ UserExists(req[p].b)
     /\ req[p].key # req[q].key
     /\ ValidAmount(req[p].amount) /\ ValidAmount(req[q].amount)
     /\ Sufficient(InitialBalance(req[p].a), req[p].amount)
     /\ Sufficient(InitialBalance(req[q].a), req[q].amount)
     /\ pc[q] # "start" /\ q \notin prior[p] /\ p \notin prior[q]
     /\ Done(p))
    => /\ resp[p].code = 201
       /\ resp[p].body.status = "COMPLETED"

RECURSIVE SumAmounts(_)
SumAmounts(S) ==
  IF S = {} THEN 0
  ELSE LET r == CHOOSE x \in S : TRUE IN r.amount + SumAmounts(S \ {r})
Completed(type) == {r \in log : r.type = type /\ r.status = "COMPLETED"}
\* The balance the transaction log gives an account.
LedgerBalance(u) ==
  SumAmounts({r \in Completed("DEPOSIT") : r.receiverId = u})
  + SumAmounts({r \in Completed("TRANSFER") : r.receiverId = u})
  - SumAmounts({r \in Completed("TRANSFER") : r.senderId = u})
  - SumAmounts({r \in Completed("WITHDRAWAL") : r.senderId = u})

\* C8: in every committed state each account's balance equals its COMPLETED
\* deposits plus COMPLETED transfers received minus COMPLETED transfers sent minus
\* COMPLETED withdrawals.
C8_BalanceMatchesLog == \A u \in Users : balance[u] = LedgerBalance(u)
\* C8 while every request carries whole cents.
C8_WholeCentBalanceMatchesLog ==
  (\A p \in Procs : WholeCents(req[p].amount)) => C8_BalanceMatchesLog

\* C9: a transfer is atomic: in every committed state its TRANSFER record is in the
\* log exactly when the sender has been debited and the receiver credited by it;
\* with no record there is no balance change of its.
C9_TransferAtomic ==
  \A p \in Procs :
    req[p].op = "transfer" =>
      IF Recorded(p)
        THEN /\ applied[p][req[p].a] < 0
             /\ applied[p][req[p].b] > 0
             /\ \A u \in Users \ {req[p].a, req[p].b} : applied[p][u] = 0
        ELSE applied[p] = NoChange
\* A transfer committed while a withdrawal had read the sender's row.
C9_Witness ==
  \E p, q \in Procs :
    /\ p # q
    /\ req[p].op = "transfer" /\ Recorded(p)
    /\ applied[p][req[p].a] < 0 /\ applied[p][req[p].b] > 0
    /\ req[q].op = "withdraw" /\ req[q].a = req[p].a
    /\ pc[q] \in {"insert", "settle", "debit"}

Terminal == {"COMPLETED", "FAILED"}
\* C10: once a record's status is COMPLETED or FAILED, no later operation changes
\* any field of it.
C10_TerminalImmutable ==
  [][\A r \in log : r.status \in Terminal => r \in log']_vars
\* A withdrawal ended FAILED, and a later request with its key was answered.
C10_Witness ==
  \E p, q \in Procs :
    /\ p # q /\ Done(p) /\ Done(q) /\ p \in prior[q]
    /\ req[q].key = req[p].key
    /\ \E r \in log : r.id = TxId(p) /\ r.status = "FAILED"
    /\ resp[q].code = 200

C12_SettlementFailure ==
  \A p \in Procs :
    (req[p].op = "withdraw" /\ isSuccess[p] = "false" /\ Done(p))
    => /\ \E r \in log :
            /\ r.id = TxId(p) /\ r.status = "FAILED"
            /\ r.failureReason # NoReason
            /\ resp[p].body = r
       /\ applied[p] = NoChange
       /\ resp[p].code = 400
\* A withdrawal from a funded account was answered after its settlement failed.
C12_Witness ==
  \E p \in Procs :
    /\ req[p].op = "withdraw" /\ isSuccess[p] = "false" /\ Done(p)
    /\ resp[p].body.status = "FAILED" /\ resp[p].body.failureReason = Rejected
    /\ balance[req[p].a] > 0

\* C13: in every committed state a WITHDRAWAL record is COMPLETED if and only if
\* its amount has been deducted from the account, and from no other.
C13_CompletedIffDeducted ==
  \A p \in Procs :
    (req[p].op = "withdraw" /\ req[p].a \in Users)
    => IF \E r \in log : r.id = TxId(p) /\ r.status = "COMPLETED"
         THEN \E r \in log :
                /\ r.id = TxId(p)
                /\ applied[p] = [u \in Users |-> IF u = req[p].a THEN 0 - r.amount ELSE 0]
         ELSE applied[p] = NoChange
\* C13 while every request carries whole cents.
C13_WholeCentCompletedIffDeducted ==
  (\A p \in Procs : WholeCents(req[p].amount)) => C13_CompletedIffDeducted

\* C14: a withdrawal or a transfer whose amount exceeds the sender's balance, as
\* the request reads it, is answered Insufficient funds, writes no record and
\* changes no balance.
C14_InsufficientFundsRejected ==
  [][\A p \in Procs :
       (/\ pc'[p] # pc[p]
        /\ \/ /\ req[p].op = "withdraw" /\ pc[p] = "read"
              /\ req[p].a \in Users
              /\ HalfCents(balance[req[p].a]) < req[p].amount
           \/ /\ req[p].op = "transfer" /\ pc[p] = "read2"
              /\ req[p].a \in Users /\ req[p].b \in Users
              /\ HalfCents(snap[p][req[p].a]) < req[p].amount)
       => /\ pc'[p] = "done"
          /\ resp'[p].code = 400 /\ resp'[p].error = "Insufficient funds"
          /\ log' = log /\ balance' = balance
          /\ wrec'[p] = NoRec /\ applied'[p] = NoChange]_vars
\* A withdrawal and a transfer were both turned away for insufficient funds.
C14_Witness ==
  \E p, q \in Procs :
    /\ req[p].op = "withdraw" /\ req[q].op = "transfer"
    /\ Done(p) /\ Done(q)
    /\ resp[p].error = "Insufficient funds" /\ resp[q].error = "Insufficient funds"
    /\ ~Recorded(p) /\ ~Recorded(q)

\* C15: a transfer with senderId = receiverId is answered Invalid transfer, and
\* that step writes no record and changes no balance.
C15_SameAccountRejected ==
  [][\A p \in Procs :
       (/\ req[p].op = "transfer" /\ req[p].a = req[p].b
        /\ ValidAmount(req[p].amount)
        /\ pc[p] = "start" /\ pc'[p] # "start")
       => /\ pc'[p] = "done"
          /\ resp'[p].code = 400 /\ resp'[p].error = "Invalid transfer"
          /\ log' = log /\ balance' = balance
          /\ wrec'[p] = NoRec /\ applied'[p] = NoChange]_vars
\* A transfer of a funded account to itself was answered Invalid transfer.
C15_Witness ==
  \E p \in Procs :
    /\ req[p].op = "transfer" /\ req[p].a = req[p].b /\ req[p].a \in Users
    /\ Done(p) /\ resp[p].error = "Invalid transfer"
    /\ HalfCents(balance[req[p].a]) >= req[p].amount
    /\ ~Recorded(p)

\* The request names an account that does not exist.
NamesUnknown(p) ==
  \/ req[p].a \notin Users
  \/ req[p].op = "transfer" /\ req[p].b \notin Users
\* C16: a deposit or withdrawal naming a non-existent account, or a transfer whose
\* sender or receiver does not exist, is answered User not found (unless its key
\* made it a replay), writes no record and changes no balance.
C16_UnknownAccountRejected ==
  \A p \in Procs :
    (/\ NamesUnknown(p)
     /\ ValidAmount(req[p].amount)
     /\ ~(req[p].op = "transfer" /\ req[p].a = req[p].b))
    => /\ pc[p] \in {"start", "read", "read2", "done"}
       /\ wrec[p] = NoRec /\ wbal[p] = NoWrites
       /\ ~Recorded(p) /\ applied[p] = NoChange
       /\ (Done(p) /\ resp[p].code # 200)
            => (resp[p].code = 404 /\ resp[p].error = "User not found")
\* A deposit to an unknown account and a transfer from a funded account to an
\* unknown one were both answered User not found.
C16_Witness ==
  \E p, q \in Procs :
    /\ req[p].op = "deposit" /\ req[p].a \notin Users
    /\ req[q].op = "transfer" /\ req[q].a \in Users /\ req[q].b \notin Users
    /\ HalfCents(balance[req[q].a]) >= req[q].amount
    /\ Done(p) /\ Done(q)
    /\ resp[p].code = 404 /\ resp[q].code = 404
    /\ applied[q] = NoChange

\* C17 as stated (for the amounts the handlers accept): any call whose
\* idempotencyKey matches a recorded transaction is answered with that record as a
\* replay and changes nothing, whatever its other arguments, a transfer with
\* senderId = receiverId included.
C17_LookupPrecedesRules ==
  [][\A p \in Procs :
       (/\ pc[p] = "start" /\ pc'[p] # "start"
        /\ ValidAmount(req[p].amount)
        /\ KeyTaken(req[p].key))
       => /\ pc'[p] = "done"
          /\ resp'[p].code = 200
          /\ resp'[p].body \in log /\ resp'[p].body.idempotencyKey = req[p].key
          /\ log' = log /\ balance' = balance]_vars
\* C17 as amended: a transfer with senderId = receiverId is answered Invalid
\* transfer before the lookup, also when its key is recorded; every other call with
\* a valid amount whose key matches a recorded transaction is answered with that
\* record as a replay; in both cases nothing changes.
C17_LookupAfterSameAccountCheck ==
  [][\A p \in Procs :
       (/\ pc[p] = "start" /\ pc'[p] # "start"
        /\ ValidAmount(req[p].amount)
        /\ KeyTaken(req[p].key))
       => /\ pc'[p] = "done"
          /\ log' = log /\ balance' = balance
          /\ IF req[p].op = "transfer" /\ req[p].a = req[p].b
               THEN resp'[p].code = 400 /\ resp'[p].error = "Invalid transfer"
               ELSE /\ resp'[p].code = 200
                    /\ resp'[p].body \in log
                    /\ resp'[p].body.idempotencyKey = req[p].key]_vars
\* A transfer to an account that does not exist was answered as a replay of the
\* record an earlier request had committed under its key.
C17_Witness ==
  \E p, q \in Procs :
    /\ p # q /\ p \in prior[q] /\ Recorded(p)
    /\ req[q].key = req[p].key
    /\ req[q].op = "transfer" /\ req[q].a # req[q].b /\ NamesUnknown(q)
    /\ Done(q) /\ resp[q].code = 200 /\ resp[q].body.id = TxId(p)

\* C18: a serialization conflict met by a transfer's update does not by itself
\* make the request fail: the transfer is retried, not answered.
C18_ConflictRetried ==
  [][\A p \in Procs :
       (/\ req[p].op = "transfer" /\ pc[p] \in {"debit", "credit"}
        /\ \E u \in WantedRow(p) : u \in stale[p] /\ ~RowLocked(p, u)
        /\ pc'[p] # pc[p])
       => pc'[p] # "done"]_vars

\* C19: a unit of work that aborts leaves none of its writes; no balance change is
\* committed without its record and no COMPLETED record without its balance
\* change; and when the caller sends the aborted request again with the same key,
\* the key's effect is applied once.
C19_AbortLeavesNothing ==
  /\ \A p \in Procs :
       (Done(p) /\ resp[p].code = 500)
       => /\ wrec[p] = NoRec /\ wbal[p] = NoWrites
          /\ ~Recorded(p) /\ applied[p] = NoChange
  /\ \A p \in Procs :
       /\ ChangedBalance(p) => Recorded(p)
       /\ (\E r \in log : r.id = TxId(p) /\ r.status = "COMPLETED") => ChangedBalance(p)
  /\ \A p \in retried :
       /\ (Done(p) /\ resp[p].code = 201)
            => /\ Recorded(p) /\ ChangedBalance(p)
               /\ Cardinality(FindByKey(req[p].key)) = 1
               /\ \A q \in Procs \ {p} :
                    req[q].key = req[p].key => ~ChangedBalance(q)
       /\ (Done(p) /\ resp[p].code = 200)
            => /\ ~Recorded(p) /\ ~ChangedBalance(p)
               /\ resp[p].body \in FindByKey(req[p].key)
\* A transfer was aborted, sent again and then committed, next to the request it
\* had collided with.
C19_Witness ==
  \E p \in retried, q \in Procs :
    /\ p # q /\ req[p].op = "transfer"
    /\ Done(p) /\ resp[p].code = 201 /\ Recorded(p) /\ ChangedBalance(p)
    /\ Recorded(q)

\* C20: a record's status moves only along PROCESSING -> {COMPLETED, FAILED}:
\* DEPOSIT and TRANSFER rows are written COMPLETED, a WITHDRAWAL row is written
\* PROCESSING and makes one transition to COMPLETED or FAILED, and a row that is
\* COMPLETED or FAILED keeps its status.
C20_StatusTransitions ==
  [][/\ \A p \in Procs :
          wrec'[p].status # wrec[p].status
          => \/ /\ wrec[p] = NoRec
                /\ \/ wrec'[p].type \in {"DEPOSIT", "TRANSFER"} /\ wrec'[p].status = "COMPLETED"
                   \/ wrec'[p].type = "WITHDRAWAL" /\ wrec'[p].status = "PROCESSING"
             \/ /\ wrec[p].status = "PROCESSING"
                /\ \/ wrec'[p].status \in Terminal /\ wrec'[p].id = wrec[p].id
                   \/ wrec'[p] = NoRec /\ ~Recorded(p)'
             \/ /\ wrec[p].status \in Terminal
                /\ wrec'[p] = NoRec
     /\ \A r \in log' \ log :
          /\ r.status \in Terminal
          /\ r.type \in {"DEPOSIT", "TRANSFER"} => r.status = "COMPLETED"
          /\ \E p \in Procs : r = wrec[p]
     /\ \A r \in log : \A r2 \in log' : r2.id = r.id => r2.status = r.status]_vars
\* One withdrawal was committed FAILED and another COMPLETED.
C20_Witness ==
  \E p, q \in Procs :
    /\ req[p].op = "withdraw" /\ req[q].op = "withdraw"
    /\ \E r \in log : r.id = TxId(p) /\ r.status = "FAILED"
    /\ \E r \in log : r.id = TxId(q) /\ r.status = "COMPLETED"

\* C21 as stated (for the amounts the handlers accept): a call is answered 201
\* (newly created) exactly when it appended a record, and 200 (replayed) exactly
\* when its idempotencyKey matched a recorded transaction on arrival; the record
\* of a replay is the stored one.
C21_CreatedIffAppended ==
  [][\A p \in Procs :
       /\ (pc[p] = "start" /\ pc'[p] # "start" /\ ValidAmount(req[p].amount))
            => (resp'[p].code = 200 <=> KeyTaken(req[p].key))
       /\ (pc[p] # "done" /\ pc'[p] = "done" /\ ValidAmount(req[p].amount))
            => /\ resp'[p].code = 201 <=> (\E r \in log' : r.id = TxId(p))
               /\ resp'[p].code = 200
                    => /\ pc[p] = "start"
                       /\ resp'[p].body \in log'
                       /\ resp'[p].body.idempotencyKey = req[p].key]_vars
\* C21 as amended: a call is answered 201 exactly when it appended a COMPLETED
\* record; a withdrawal whose settlement failed appended a FAILED record and is
\* answered 400 carrying it; a call with a valid amount is answered 200 exactly
\* when its key matched a recorded transaction on arrival and it is not a transfer
\* with senderId = receiverId; the record of a replay is the stored one.
C21_CreatedOrFailedIffAppended ==
  [][\A p \in Procs :
       /\ (pc[p] = "start" /\ pc'[p] # "start" /\ ValidAmount(req[p].amount))
            => (resp'[p].code = 200
                  <=> (KeyTaken(req[p].key)
                         /\ ~(req[p].op = "transfer" /\ req[p].a = req[p].b)))
       /\ (pc[p] # "done" /\ pc'[p] = "done" /\ ValidAmount(req[p].amount))
            => /\ resp'[p].code = 201
                    <=> (\E r \in log' : r.id = TxId(p) /\ r.status = "COMPLETED")
               /\ (resp'[p].code = 400 /\ resp'[p].body # NoRec)
                    <=> (\E r \in log' : r.id = TxId(p) /\ r.status = "FAILED")
               /\ resp'[p].code \in {201, 400} /\ resp'[p].body # NoRec
                    => resp'[p].body \in log' /\ resp'[p].body.id = TxId(p)
               /\ resp'[p].code = 200
                    => /\ pc[p] = "start"
                       /\ resp'[p].body \in log'
                       /\ resp'[p].body.idempotencyKey = req[p].key]_vars
\* A withdrawal whose settlement failed was answered 400 with its record, and a
\* later call with its key was answered 200 with the same record.
C21_Witness ==
  \E p, q \in Procs :
    /\ p # q /\ Done(p) /\ Done(q) /\ p \in prior[q]
    /\ req[p].op = "withdraw" /\ isSuccess[p] = "false"
    /\ resp[p].code = 400 /\ resp[p].body.id = TxId(p)
    /\ resp[q].code = 200 /\ resp[q].body = resp[p].body

\* C22: the answer of getTransactions for an existing account holds exactly the
\* stored transactions whose senderId or receiverId is the account, each once,
\* with createdAt never increasing down the list; the handler changes neither the
\* log nor any balance.
C22_ListTransactions ==
  /\ [](\A p \in Procs :
          (Done(p) /\ req[p].op = "list" /\ req[p].a \in Users)
            => /\ resp[p].code = 200
               /\ {resp[p].body[i] : i \in DOMAIN resp[p].body}
                    = {r \in log : r.senderId = req[p].a \/ r.receiverId = req[p].a}
               /\ Len(resp[p].body)
                    = Cardinality({r \in log : r.senderId = req[p].a
                                                 \/ r.receiverId = req[p].a})
               /\ \A i, j \in DOMAIN resp[p].body :
                    i < j => resp[p].body[i].createdAt >= resp[p].body[j].createdAt)
  /\ [][log' = log /\ balance' = balance]_vars
\* A listing was answered that holds a row of its account as sender and an older
\* one as receiver, and leaves out a stored row of another account.
C22_Witness ==
  \E p \in Procs :
    /\ Done(p) /\ req[p].op = "list" /\ req[p].a \in Users
    /\ Len(resp[p].body) = 2
    /\ resp[p].body[1].createdAt > resp[p].body[2].createdAt
    /\ resp[p].body[1].senderId = req[p].a
    /\ resp[p].body[2].receiverId = req[p].a
    /\ \E r \in log : \A i \in DOMAIN resp[p].body : resp[p].body[i] # r

\* The rows that exist: the committed ones and those written by open transactions.
Rows == log \cup {wrec[p] : p \in {q \in Procs : wrec[q] # NoRec}}

\* C23: every row has the sender/receiver shape of its type (DEPOSIT: receiver
\* only; WITHDRAWAL: sender only; TRANSFER: both, and they differ), and no step
\* changes the type, senderId or receiverId of a committed row.
C23_ShapeOfType ==
  /\ [](\A r \in Rows :
          /\ r.type \in {"DEPOSIT", "WITHDRAWAL", "TRANSFER"}
          /\ r.type = "DEPOSIT" => r.receiverId \in Users /\ r.senderId = NoUser
          /\ r.type = "WITHDRAWAL" => r.senderId \in Users /\ r.receiverId = NoUser
          /\ r.type = "TRANSFER"
               => /\ r.senderId \in Users /\ r.receiverId \in Users
                  /\ r.senderId # r.receiverId)
  /\ [][\A r \in log : \A r2 \in log' :
          r2.id = r.id => /\ r2.type = r.type
                          /\ r2.senderId = r.senderId
                          /\ r2.receiverId = r.receiverId]_vars
\* The log holds a deposit, and a withdrawal and a transfer recorded by two
\* answered requests, the one committed before the other arrived.
C23_Witness ==
  \E p, q \in Procs :
    /\ Done(p) /\ Done(q) /\ p \in prior[q]
    /\ \E r \in log : r.id = TxId(p) /\ r.type = "WITHDRAWAL"
    /\ \E r \in log : r.id = TxId(q) /\ r.type = "TRANSFER"
    /\ \E r \in log : r.type = "DEPOSIT"

\* C24: in every reachable state a row, committed or not, has a failureReason
\* exactly when its status is FAILED.
C24_FailureReasonIffFailed ==
  \A r \in Rows : (r.failureReason # NoReason) <=> (r.status = "FAILED")
\* The log holds a FAILED withdrawal with its reason next to a COMPLETED row of
\* another request.
C24_Witness ==
  \E p, q \in Procs :
    /\ p # q
    /\ \E r \in log : /\ r.id = TxId(p) /\ r.status = "FAILED"
                       /\ r.failureReason = Rejected
    /\ \E r \in log : /\ r.id = TxId(q) /\ r.status = "COMPLETED"
                       /\ r.failureReason = NoReason

\* C25: every row has amount > 0, and a deposit, transfer or withdraw request
\* with amount <= 0 is answered 400 "Invalid input" at its first step, whether or
\* not its idempotencyKey is recorded, and leaves the log and all balances
\* unchanged: no later step belongs to it.
C25_AmountPositive ==
  /\ [](\A r \in Rows : r.amount > 0)
  /\ [](\A p \in Procs :
          req[p].amount <= 0
            => /\ pc[p] \in {"start", "done"}
               /\ wrec[p] = NoRec /\ wbal[p] = NoWrites
               /\ applied[p] = NoChange
               /\ ~(\E r \in log : r.id = TxId(p))
               /\ pc[p] = "done"
                    => /\ resp[p].code = 400
                       /\ resp[p].error = "Invalid input"
                       /\ resp[p].body = NoRec)
  /\ [][\A p \in Procs :
          (req[p].amount <= 0 /\ pc[p] = "start" /\ pc'[p] # "start")
            => log' = log /\ balance' = balance]_vars
\* A request with amount <= 0 that carries the key of a row committed before it
\* arrived was answered 400 "Invalid input".
C25_Witness ==
  \E p, q \in Procs :
    /\ p # q /\ Done(p) /\ Done(q)
    /\ q \in prior[p] /\ resp[q].code = 201
    /\ req[p].amount <= 0 /\ req[p].key = req[q].key
    /\ \E r \in log : r.id = TxId(q) /\ r.idempotencyKey = req[p].key
    /\ resp[p].code = 400 /\ resp[p].error = "Invalid input"

\* C26: the log only grows: every step keeps every committed row, with its id,
\* type, amount and idempotencyKey, and keeps the set of accounts.
C26_LogOnlyGrows ==
  [][/\ \A r \in log : \E r2 \in log' :
          /\ r2.id = r.id /\ r2.type = r.type
          /\ r2.amount = r.amount /\ r2.idempotencyKey = r.idempotencyKey
     /\ DOMAIN balance' = DOMAIN balance
     /\ DOMAIN balance' = Users]_vars
\* Two deposits to one account were committed one after the other and both rows
\* are in the log.
C26_Witness ==
  \E p, q \in Procs :
    /\ Done(p) /\ Done(q) /\ p \in prior[q]
    /\ req[p].op = "deposit" /\ req[q].op = "deposit" /\ req[p].a = req[q].a
    /\ \E r \in log : r.id = TxId(p)
    /\ \E r \in log : r.id = TxId(q)

\* C27: a deposit of a valid amount to an existing account, with a key no other
\* request carries, is answered 201 whatever the balance: the log holds its row
\* {DEPOSIT, COMPLETED, receiverId = account}, the account's balance rose by
\* exactly the amount and no other balance changed.
C27_DepositSucceeds ==
  \A p \in Procs :
    (/\ Done(p) /\ req[p].op = "deposit" /\ req[p].a \in Users
     /\ req[p].amount >= MinAmount
     /\ \A q \in Procs \ {p} : req[q].key # req[p].key)
      => /\ resp[p].code = 201
         /\ \E r \in log :
              /\ r.id = TxId(p) /\ r.type = "DEPOSIT" /\ r.status = "COMPLETED"
              /\ r.receiverId = req[p].a /\ r.senderId = NoUser
              /\ resp[p].body = r
         /\ HalfCents(applied[p][req[p].a]) = req[p].amount
         /\ \A u \in Users \ {req[p].a} : applied[p][u] = 0
\* C27 for whole-cent amounts: the same, when the deposit's amount is a whole
\* number of cents.
C27_WholeCentDepositSucceeds ==
  \A p \in Procs :
    (/\ Done(p) /\ req[p].op = "deposit" /\ req[p].a \in Users
     /\ req[p].amount >= MinAmount /\ req[p].amount % 2 = 0
     /\ \A q \in Procs \ {p} : req[q].key # req[p].key)
      => /\ resp[p].code = 201
         /\ \E r \in log :
              /\ r.id = TxId(p) /\ r.type = "DEPOSIT" /\ r.status = "COMPLETED"
              /\ r.receiverId = req[p].a /\ r.senderId = NoUser
              /\ resp[p].body = r
         /\ HalfCents(applied[p][req[p].a]) = req[p].amount
         /\ \A u \in Users \ {req[p].a} : applied[p][u] = 0

\* Two different valid transfers out of one account to existing accounts, both
\* arrived before either was answered, each within the sender's initial balance
\* and the two together beyond it.
CompetingTransfers(p, q) ==
  /\ p # q /\ p \notin prior[q] /\ q \notin prior[p]
  /\ pc[p] # "start" /\ pc[q] # "start"
  /\ req[p].op = "transfer" /\ req[q].op = "transfer"
  /\ req[p].a = req[q].a /\ req[p].a \in Users
  /\ req[p].b \in Users \ {req[p].a} /\ req[q].b \in Users \ {req[q].a}
  /\ req[p].key # req[q].key
  /\ req[p].amount >= MinAmount /\ req[q].amount >= MinAmount
  /\ req[p].amount <= HalfCents(InitialBalance(req[p].a))
  /\ req[q].amount <= HalfCents(InitialBalance(req[p].a))
  /\ req[p].amount + req[q].amount > HalfCents(InitialBalance(req[p].a))

\* C28: no transfer holds the row lock of the account with the larger id while it
\* waits for the row lock of the account with the smaller id.
C28_LocksAscending ==
  \A p \in Procs :
    req[p].op = "transfer"
      => ~(\E hi \in DOMAIN wbal[p], lo \in WantedRow(p) :
             lo < hi /\ RowLocked(p, lo))

\* C29: of two concurrent transfers from one sender, each affordable alone but
\* not both together, at most one is committed and the sender's balance is
\* debited at most once.
C29_OneOfTwoTransfers ==
  \A p, q \in Procs :
    CompetingTransfers(p, q)
      => /\ ~(Recorded(p) /\ Recorded(q))
         /\ ~(applied[p][req[p].a] # 0 /\ applied[q][req[q].a] # 0)
\* C29 for whole-cent amounts: the same, when both amounts are whole numbers of
\* cents.
C29_WholeCentOneOfTwoTransfers ==
  \A p, q \in Procs :
    (CompetingTransfers(p, q) /\ req[p].amount % 2 = 0 /\ req[q].amount % 2 = 0)
      => /\ ~(Recorded(p) /\ Recorded(q))
         /\ ~(applied[p][req[p].a] # 0 /\ applied[q][req[q].a] # 0)

\* C30: between a withdrawal's read of the balance and the end of its unit of
\* work no step other than its own commit changes the committed balance of its
\* account.
C30_WithdrawHoldsLock ==
  [][\A p \in Procs :
       (/\ req[p].op = "withdraw"
        /\ pc[p] \in {"insert", "settle", "debit", "commit"}
        /\ pc'[p] = pc[p])
         => balance'[req[p].a] = balance[req[p].a]]_vars

\* C31: a balance changes only at the commit of a deposit or withdrawal naming
\* that account or of a transfer naming it as sender or receiver; the log and
\* the balances change at no other step; and a step that answers getBalance,
\* listTransactions, the admin statistics, a rejected request or a replayed one
\* changes no balance and no record.
C31_FrameEffect ==
  [][/\ \A u \in Users :
          balance'[u] # balance[u]
            => \E p \in Procs :
                 /\ pc[p] = "commit" /\ pc'[p] = "done"
                 /\ \/ req[p].op \in {"deposit", "withdraw"} /\ u = req[p].a
                    \/ req[p].op = "transfer" /\ u \in {req[p].a, req[p].b}
     /\ (log' # log \/ balance' # balance)
          => \E p \in Procs :
               /\ pc[p] = "commit" /\ pc'[p] = "done"
               /\ req[p].op \in {"deposit", "withdraw", "transfer"}
               /\ resp'[p].body # NoRec /\ resp'[p].code # 200
     /\ \A p \in Procs :
          (/\ pc[p] # "done" /\ pc'[p] = "done"
           /\ \/ req[p].op \in {"list", "balance", "stats"}
              \/ resp'[p].body = NoRec
              \/ resp'[p].code = 200)
            => log' = log /\ balance' = balance]_vars
\* A transfer changed the balances of its sender and its receiver, and a request
\* that arrived later with the transfer's key was answered with the stored row.
C31_Witness ==
  \E p, q \in Procs :
    /\ p # q /\ Done(p) /\ Done(q) /\ p \in prior[q]
    /\ req[p].op = "transfer" /\ resp[p].code = 201
    /\ applied[p][req[p].a] # 0 /\ applied[p][req[p].b] # 0
    /\ req[q].key = req[p].key /\ resp[q].code = 200
    /\ applied[q] = NoChange

\* C32: no committed WITHDRAWAL row has a status other than COMPLETED or FAILED,
\* and every withdrawal that has written its row is followed by a state in
\* which the log holds that row with status COMPLETED or FAILED.
C32_WithdrawalEndsTerminal ==
  /\ [](\A r \in log : r.type = "WITHDRAWAL" => r.status \in {"COMPLETED", "FAILED"})
  /\ \A p \in Procs :
       (wrec[p].type = "WITHDRAWAL")
         ~> (\E r \in log : r.id = TxId(p) /\ r.status \in {"COMPLETED", "FAILED"})
\* One withdrawal is committed as COMPLETED while another has written its row
\* with status PROCESSING and has not settled yet.
C32_Witness ==
  \E p, q \in Procs :
    /\ p # q
    /\ \E r \in log : r.id = TxId(p) /\ r.type = "WITHDRAWAL" /\ r.status = "COMPLETED"
    /\ wrec[q].type = "WITHDRAWAL" /\ wrec[q].status = "PROCESSING"

\* C33: of two withdraw requests carrying one idempotencyKey at most one reaches
\* the settlement step; a request that has reached it is not settled again, and
\* when it is answered its row is the committed one.
C33_SettledOncePerKey ==
  /\ [](\A p, q \in Procs :
          (/\ p # q /\ req[p].op = "withdraw" /\ req[q].op = "withdraw"
           /\ req[p].key = req[q].key)
            => ~(isSuccess[p] # NotSettled /\ isSuccess[q] # NotSettled))
  /\ [](\A p \in Procs :
          (req[p].op = "withdraw" /\ isSuccess[p] # NotSettled /\ pc[p] = "done")
            => \E r \in log : r.id = TxId(p) /\ r.idempotencyKey = req[p].key)
  /\ [][\A p \in Procs :
          isSuccess[p] # NotSettled => isSuccess'[p] = isSuccess[p]]_vars
\* Two withdrawals with one key were in flight together: one was settled and its
\* row committed, the other was answered without reaching settlement.
C33_Witness ==
  \E p, q \in Procs :
    /\ p # q /\ Done(p) /\ Done(q)
    /\ p \notin prior[q] /\ q \notin prior[p]
    /\ req[p].op = "withdraw" /\ req[q].op = "withdraw"
    /\ req[p].key = req[q].key
    /\ isSuccess[p] # NotSettled /\ isSuccess[q] = NotSettled
    /\ \E r \in log : r.id = TxId(p)
    /\ ~(\E r \in log : r.id = TxId(q))

\* The stored row with the key of p's request differs from the request in
\* operation type, account or amount.
OtherArguments(p, r) ==
  \/ r.type # (IF req[p].op = "deposit" THEN "DEPOSIT"
               ELSE IF req[p].op = "withdraw" THEN "WITHDRAWAL" ELSE "TRANSFER")
  \/ r.amount # RoundCents(req[p].amount)
  \/ req[p].op = "deposit" /\ r.receiverId # req[p].a
  \/ req[p].op = "withdraw" /\ r.senderId # req[p].a
  \/ req[p].op = "transfer" /\ (r.senderId # req[p].a \/ r.receiverId # req[p].b)

\* C34 as stated (for the amounts the handlers accept): a request whose key is
\* recorded with a different operation type, account or amount is answered at its
\* first step with the stored row, and that step changes no balance and no row.
C34_KeyAloneMatches ==
  [][\A p \in Procs : \A r \in log :
       (/\ pc[p] = "start" /\ pc'[p] # "start"
        /\ req[p].amount >= MinAmount
        /\ r.idempotencyKey = req[p].key /\ OtherArguments(p, r))
         => /\ pc'[p] = "done"
            /\ resp'[p].code = 200 /\ resp'[p].body = r
            /\ log' = log /\ balance' = balance]_vars
\* C34 as amended: the same for every such request except a transfer whose
\* senderId equals its receiverId, which is answered 400 at its first step; in
\* both cases the step changes no balance and no row, and the request takes no
\* further step.
C34_KeyAloneMatchesAfterChecks ==
  [][\A p \in Procs : \A r \in log :
       (/\ pc[p] = "start" /\ pc'[p] # "start"
        /\ req[p].amount >= MinAmount
        /\ r.idempotencyKey = req[p].key /\ OtherArguments(p, r))
         => /\ pc'[p] = "done"
            /\ IF req[p].op = "transfer" /\ req[p].a = req[p].b
                 THEN resp'[p].code = 400 /\ resp'[p].body = NoRec
                 ELSE resp'[p].code = 200 /\ resp'[p].body = r
            /\ log' = log /\ balance' = balance]_vars
\* A withdrawal carrying the key of a committed deposit to another account was
\* answered with the deposit's row.
C34_Witness ==
  \E p, q \in Procs :
    /\ p # q /\ Done(p) /\ Done(q) /\ q \in prior[p]
    /\ req[q].op = "deposit" /\ req[p].op = "withdraw"
    /\ req[p].key = req[q].key /\ req[p].a # req[q].a
    /\ resp[q].code = 201
    /\ resp[p].code = 200 /\ resp[p].body = resp[q].body
    /\ resp[p].body.type = "DEPOSIT"

\* C35: a withdraw that arrives after a withdrawal with its key has ended FAILED
\* is answered with that FAILED row, is not settled and changes no balance; a
\* withdraw that arrives after a withdrawal with its key was rejected for
\* insufficient funds or a missing account, the key being recorded by no one,
\* is not answered as a replay: it is processed on its own arguments.
C35_FailedReplayedRejectedNot ==
  \A p, q \in Procs :
    (/\ p # q /\ p \in prior[q] /\ pc[q] # "start"
     /\ req[p].op = "withdraw" /\ req[q].op = "withdraw"
     /\ req[p].key = req[q].key
     /\ req[p].amount >= MinAmount /\ req[q].amount >= MinAmount)
      => /\ (\E r \in log : r.id = TxId(p) /\ r.status = "FAILED")
              => /\ pc[q] = "done" /\ resp[q].code = 200
                 /\ resp[q].body \in log /\ resp[q].body.id = TxId(p)
                 /\ resp[q].body.status = "FAILED"
                 /\ isSuccess[q] = NotSettled
                 /\ applied[q] = NoChange
         /\ (resp[p].error \in {"Insufficient funds", "User not found"})
              => /\ ~(\E r \in log : r.id = TxId(p))
                 /\ resp[q].code # 200
                 /\ pc[q] = "done"
                      => \/ resp[q].error \in {"Insufficient funds", "User not found"}
                         \/ /\ resp[q].body.id = TxId(q)
                            /\ resp[q].body \in log
\* A withdrawal ended FAILED, and a later withdraw with its key was answered
\* with the FAILED row without being settled.
C35_Witness ==
  \E p, q \in Procs :
    /\ p # q /\ p \in prior[q] /\ Done(q)
    /\ req[p].op = "withdraw" /\ req[q].op = "withdraw"
    /\ req[p].key = req[q].key
    /\ \E r \in log : r.id = TxId(p) /\ r.status = "FAILED" /\ resp[q].body = r
    /\ resp[q].code = 200 /\ isSuccess[q] = NotSettled
\* A withdrawal was rejected for insufficient funds, and a later withdraw with
\* its key and a smaller amount was settled and recorded.
C35_WitnessRejected ==
  \E p, q \in Procs :
    /\ p # q /\ p \in prior[q] /\ Done(q)
    /\ req[p].op = "withdraw" /\ req[q].op = "withdraw"
    /\ req[p].key = req[q].key
    /\ resp[p].error = "Insufficient funds"
    /\ isSuccess[q] # NotSettled
    /\ \E r \in log : r.id = TxId(q)

\* C36: no two rows of "User" share an email or an id; a row that appears has
\* balance 0; and a createUser whose email is in use when it is answered has
\* created no account, whatever the other request did meanwhile.
C36_EmailUnique ==
  /\ [](\A u, v \in users : (u.email = v.email \/ u.id = v.id) => u = v)
  /\ []({u.id : u \in users} = DOMAIN balance)
  /\ [][\A id \in DOMAIN balance' \ DOMAIN balance : balance'[id] = 0]_vars
  /\ [][\A p \in Procs :
          (/\ req[p].op = "createUser" /\ pc[p] # "done" /\ pc'[p] = "done"
           /\ \E u \in users : u.email = req[p].email)
            => /\ users' = users /\ balance' = balance
               /\ resp'[p].code \in {400, 409, 500}]_vars
\* Two createUser requests with one email were in flight together: one created
\* the account with balance 0, the other was answered with an error and the
\* table holds one row with the email.
C36_Witness ==
  \E p, q \in Procs :
    /\ p # q /\ Done(p) /\ Done(q)
    /\ p \notin prior[q] /\ q \notin prior[p]
    /\ req[p].op = "createUser" /\ req[q].op = "createUser"
    /\ req[p].email = req[q].email
    /\ resp[p].code = 201 /\ resp[q].code = 500
    /\ Cardinality({u \in users : u.email = req[p].email}) = 1
    /\ balance[resp[p].body.id] = 0
====
